---- MODULE Spec2Model ----
(***************************************************************************)
(* Resume screening helper: keyword scoring (helpers.py) and the skill     *)
(* matching, question generation and batch ranking functions (agents.py).  *)
(*                                                                         *)
(* A Python str is a sequence of one-character strings; None is the value  *)
(* None below, which is no character sequence.  A Python float is an       *)
(* IEEE-754 binary64 value, computed exactly with big naturals.            *)
(***************************************************************************)
EXTENDS Integers, Sequences, FiniteSets, TLC

VARIABLES
    pc,              \* "call": arguments chosen, "done": the function returned
    domain,          \* argument of compute_domain_match / batch_resume_analysis
    resume_text,     \* argument of compute_domain_match
    match_result,    \* value returned by compute_domain_match
    tie_rules,       \* history: tie rules that agree with every percent returned so far
    resume_files,    \* argument of batch_resume_analysis
    batch_result,    \* outcome of batch_resume_analysis
    file_obj,        \* argument of extract_text_from_pdf
    extract_result,  \* outcome of extract_text_from_pdf
    text,            \* argument of ats_score / detect_skills_simple
    score,           \* value returned by ats_score
    custom_skills,   \* argument of detect_skills_simple
    detected,        \* value returned by detect_skills_simple
    skills,          \* argument of generate_interview_questions_offline
    max_per_skill,   \* argument of generate_interview_questions_offline
    difficulty,      \* argument of generate_interview_questions_offline
    qs,              \* value returned by generate_interview_questions_offline
    selected_areas,  \* argument of generate_improvements
    improvements,    \* value returned by generate_improvements
    cleaned,         \* value returned by clean_text
    question,        \* argument of simple_qa_offline
    answer           \* value returned by simple_qa_offline

vars == <<pc, domain, resume_text, match_result, tie_rules, resume_files, batch_result,
          file_obj, extract_result, text, score, custom_skills, detected,
          skills, max_per_skill, difficulty, qs,
          selected_areas, improvements, cleaned, question, answer>>

-----------------------------------------------------------------------------
(* Python values *)

None == <<"None">>
\* None where a list of strings is expected (no list of strings holds None)
NoneList == <<None>>
EmptyStr == <<>>

\* truth value of a str-or-None: `if text`, `if not text`
Truthy(s) == s # None /\ s # EmptyStr

LOWERCASE == <<"a","b","c","d","e","f","g","h","i","j","k","l","m","n","o","p","q","r","s","t","u","v","w","x","y","z">>
UPPERCASE == <<"A","B","C","D","E","F","G","H","I","J","K","L","M","N","O","P","Q","R","S","T","U","V","W","X","Y","Z">>

IsLowerCh(c) == \E i \in 1..Len(LOWERCASE) : LOWERCASE[i] = c
IsUpperCh(c) == \E i \in 1..Len(UPPERCASE) : UPPERCASE[i] = c
IsCased(c) == IsLowerCh(c) \/ IsUpperCh(c)
LowerCh(c) == IF IsUpperCh(c)
              THEN LOWERCASE[CHOOSE i \in 1..Len(UPPERCASE) : UPPERCASE[i] = c] ELSE c
UpperCh(c) == IF IsLowerCh(c)
              THEN UPPERCASE[CHOOSE i \in 1..Len(LOWERCASE) : LOWERCASE[i] = c] ELSE c

\* a list (or str) built by comprehension, as a sequence value
ListOf(f) == f \o <<>>

\* str.lower()
Lower(s) == ListOf([i \in 1..Len(s) |-> LowerCh(s[i])])

\* str.upper()
Upper(s) == ListOf([i \in 1..Len(s) |-> UpperCh(s[i])])

\* str.title(): a cased character is upper-cased after an uncased one (or at the
\* start) and lower-cased after a cased one
Title(s) == ListOf([i \in 1..Len(s) |->
               IF i = 1 \/ ~IsCased(s[i - 1]) THEN UpperCh(s[i]) ELSE LowerCh(s[i])])

\* `sub in s` on strings: substring containment
In(sub, s) == \E i \in 1..(Len(s) - Len(sub) + 1) :
                 \A j \in 1..Len(sub) : s[i + j - 1] = sub[j]

\* `x in lst` on lists: membership
InList(x, lst) == \E i \in 1..Len(lst) : lst[i] = x

Min(a, b) == IF a <= b THEN a ELSE b

-----------------------------------------------------------------------------
(* binary64 arithmetic: a float is m * 2^e, m a big natural below 2^53 (or 2^53
   itself after a carry), rounded to nearest, ties to even, after every operation *)

MantissaBits == 53
LimbBits == 15

RECURSIVE Pow2(_)
Pow2(k) == IF k = 0 THEN 1 ELSE 2 * Pow2(k - 1)

LimbBase == Pow2(LimbBits)

RECURSIVE BitLenInt(_)
BitLenInt(n) == IF n = 0 THEN 0 ELSE 1 + BitLenInt(n \div 2)

\* a big natural: its limbs, least significant first, the last one not 0
RECURSIVE BigNorm(_)
BigNorm(x) == IF x = <<>> THEN x
              ELSE IF x[Len(x)] = 0 THEN BigNorm(SubSeq(x, 1, Len(x) - 1)) ELSE x

BigFromInt(n) == BigNorm(<<n % LimbBase, n \div LimbBase>>)

BigToInt(x) == IF x = <<>> THEN 0 ELSE IF Len(x) = 1 THEN x[1] ELSE x[1] + LimbBase * x[2]

BigBitLen(x) == IF x = <<>> THEN 0 ELSE (Len(x) - 1) * LimbBits + BitLenInt(x[Len(x)])

BigIsOdd(x) == x # <<>> /\ x[1] % 2 = 1

RECURSIVE BigMulSmallFrom(_, _, _, _)
BigMulSmallFrom(x, c, i, carry) ==
    IF i > Len(x) THEN (IF carry = 0 THEN <<>> ELSE <<carry>>)
    ELSE LET t == x[i] * c + carry
         IN  <<t % LimbBase>> \o BigMulSmallFrom(x, c, i + 1, t \div LimbBase)

BigMulSmall(x, c) == BigNorm(BigMulSmallFrom(x, c, 1, 0))

RECURSIVE BigAddFrom(_, _, _, _)
BigAddFrom(x, y, i, carry) ==
    IF i > Len(x) /\ i > Len(y) THEN (IF carry = 0 THEN <<>> ELSE <<carry>>)
    ELSE LET t == (IF i <= Len(x) THEN x[i] ELSE 0)
                  + (IF i <= Len(y) THEN y[i] ELSE 0) + carry
         IN  <<t % LimbBase>> \o BigAddFrom(x, y, i + 1, t \div LimbBase)

BigAdd(x, y) == BigNorm(BigAddFrom(x, y, 1, 0))

\* quotient and remainder of x by a divisor d below LimbBase
RECURSIVE BigDivSmallFrom(_, _, _, _)
BigDivSmallFrom(x, d, i, rem) ==
    IF i = 0 THEN [q |-> <<>>, r |-> rem]
    ELSE LET t == rem * LimbBase + x[i]
             rest == BigDivSmallFrom(x, d, i - 1, t % d)
         IN  [q |-> Append(rest.q, t \div d), r |-> rest.r]

BigDivSmall(x, d) == LET res == BigDivSmallFrom(x, d, Len(x), 0)
                     IN  [q |-> BigNorm(res.q), r |-> res.r]

RECURSIVE BigShiftLeft(_, _)
BigShiftLeft(x, k) == IF x = <<>> \/ k = 0 THEN x
                      ELSE IF k >= LimbBits THEN BigShiftLeft(<<0>> \o x, k - LimbBits)
                      ELSE BigMulSmall(x, Pow2(k))

\* floor(x / 2^k), and whether a dropped bit was set (or sticky already was)
RECURSIVE BigShiftRight(_, _, _)
BigShiftRight(x, k, sticky) ==
    IF k = 0 \/ x = <<>> THEN [q |-> x, sticky |-> sticky]
    ELSE IF k >= LimbBits THEN BigShiftRight(Tail(x), k - LimbBits, sticky \/ x[1] # 0)
    ELSE LET d == BigDivSmall(x, Pow2(k)) IN [q |-> d.q, sticky |-> sticky \/ d.r # 0]

\* (x + s) / 2^k to the nearest integer, ties to even, where 0 < s < 1 iff sticky
RoundHalfEvenShift(x, k, sticky) ==
    IF k = 0 THEN x
    ELSE LET s == BigShiftRight(x, k - 1, sticky)
             guard == BigIsOdd(s.q)
             q == BigDivSmall(s.q, 2).q
         IN  IF guard /\ (s.sticky \/ BigIsOdd(q)) THEN BigAdd(q, <<1>>) ELSE q

Zero64 == [m |-> <<>>, e |-> 0]

\* the binary64 nearest to (x + s) * 2^e
Round64(x, e, sticky) ==
    IF x = <<>> THEN Zero64
    ELSE LET k == BigBitLen(x) - MantissaBits
         IN  IF k <= 0 THEN [m |-> x, e |-> e]
             ELSE [m |-> RoundHalfEvenShift(x, k, sticky), e |-> e + k]

\* enough quotient bits for a correctly rounded a / b with a, b below 2^7
DivShift == MantissaBits + 7

\* float a / b of two small ints (true division), also a decimal literal such as 0.6
FDivInt(a, b) ==
    IF a = 0 THEN Zero64
    ELSE LET d == BigDivSmall(BigShiftLeft(BigFromInt(a), DivShift), b)
         IN  Round64(d.q, 0 - DivShift, d.r # 0)

\* float x * c with c a small int
FMulInt(x, c) == Round64(BigMulSmall(x.m, c), x.e, FALSE)

\* float x + y
FAdd(x, y) ==
    IF x.m = <<>> THEN y
    ELSE IF y.m = <<>> THEN x
    ELSE LET e == Min(x.e, y.e)
         IN  Round64(BigAdd(BigShiftLeft(x.m, x.e - e), BigShiftLeft(y.m, y.e - e)), e, FALSE)

\* int(x): truncation toward zero
FTrunc(x) == IF x.e >= 0 THEN BigToInt(BigShiftLeft(x.m, x.e))
             ELSE BigToInt(BigShiftRight(x.m, 0 - x.e, FALSE).q)

\* round(x): the nearest integer, ties to even
FRound(x) == IF x.e >= 0 THEN BigToInt(BigShiftLeft(x.m, x.e))
             ELSE BigToInt(RoundHalfEvenShift(x.m, 0 - x.e, FALSE))

-----------------------------------------------------------------------------
(* agents.py: the domain skill catalog *)

\* the domains in dictionary (insertion) order
DOMAIN_NAMES == <<"Data Scientist", "AI/ML Engineer", "Frontend Developer",
                  "Backend Developer", "Cloud Engineer", "Software Engineer",
                  "QA Engineer">>

DOMAIN_SKILL_MAP == <<
    << <<<<"p","y","t","h","o","n">>, 5>>, <<<<"p","a","n","d","a","s">>, 5>>, <<<<"n","u","m","p","y">>, 5>>, <<<<"s","c","i","k","i","t","-","l","e","a","r","n">>, 5>>,
       <<<<"m","a","c","h","i","n","e"," ","l","e","a","r","n","i","n","g">>, 5>>, <<<<"s","t","a","t","i","s","t","i","c","s">>, 4>>, <<<<"s","q","l">>, 4>>,
       <<<<"v","i","s","u","a","l","i","z","a","t","i","o","n">>, 3>>, <<<<"s","p","a","r","k">>, 3>>, <<<<"t","e","n","s","o","r","f","l","o","w">>, 4>> >>,
    << <<<<"p","y","t","h","o","n">>, 5>>, <<<<"d","e","e","p"," ","l","e","a","r","n","i","n","g">>, 5>>, <<<<"p","y","t","o","r","c","h">>, 5>>, <<<<"t","e","n","s","o","r","f","l","o","w">>, 5>>,
       <<<<"c","o","m","p","u","t","e","r"," ","v","i","s","i","o","n">>, 4>>, <<<<"n","l","p">>, 4>>, <<<<"d","o","c","k","e","r">>, 3>>, <<<<"m","l","o","p","s">>, 3>>,
       <<<<"k","e","r","a","s">>, 3>>, <<<<"c","u","d","a">>, 2>> >>,
    << <<<<"h","t","m","l">>, 5>>, <<<<"c","s","s">>, 5>>, <<<<"j","a","v","a","s","c","r","i","p","t">>, 5>>, <<<<"r","e","a","c","t">>, 5>>,
       <<<<"t","y","p","e","s","c","r","i","p","t">>, 4>>, <<<<"w","e","b","p","a","c","k">>, 3>>, <<<<"v","u","e">>, 3>>, <<<<"a","c","c","e","s","s","i","b","i","l","i","t","y">>, 3>>,
       <<<<"p","e","r","f","o","r","m","a","n","c","e">>, 3>>, <<<<"t","e","s","t","i","n","g">>, 3>> >>,
    << <<<<"p","y","t","h","o","n">>, 5>>, <<<<"d","j","a","n","g","o">>, 5>>, <<<<"f","l","a","s","k">>, 4>>, <<<<"n","o","d","e",".","j","s">>, 4>>,
       <<<<"s","q","l">>, 4>>, <<<<"r","e","s","t"," ","a","p","i">>, 4>>, <<<<"d","o","c","k","e","r">>, 3>>, <<<<"m","i","c","r","o","s","e","r","v","i","c","e","s">>, 4>>,
       <<<<"p","o","s","t","g","r","e","s","q","l">>, 3>>, <<<<"r","e","d","i","s">>, 3>> >>,
    << <<<<"a","w","s">>, 5>>, <<<<"a","z","u","r","e">>, 5>>, <<<<"g","c","p">>, 5>>, <<<<"d","o","c","k","e","r">>, 4>>,
       <<<<"k","u","b","e","r","n","e","t","e","s">>, 4>>, <<<<"t","e","r","r","a","f","o","r","m">>, 4>>, <<<<"s","e","r","v","e","r","l","e","s","s">>, 3>>,
       <<<<"m","o","n","i","t","o","r","i","n","g">>, 3>>, <<<<"c","i","/","c","d">>, 4>>, <<<<"s","e","c","u","r","i","t","y">>, 3>> >>,
    << <<<<"p","y","t","h","o","n">>, 5>>, <<<<"j","a","v","a">>, 5>>, <<<<"d","a","t","a"," ","s","t","r","u","c","t","u","r","e","s">>, 5>>, <<<<"a","l","g","o","r","i","t","h","m","s">>, 5>>,
       <<<<"g","i","t">>, 4>>, <<<<"o","o","p">>, 4>>, <<<<"s","y","s","t","e","m"," ","d","e","s","i","g","n">>, 4>>, <<<<"m","i","c","r","o","s","e","r","v","i","c","e","s">>, 3>>,
       <<<<"c","o","n","c","u","r","r","e","n","c","y">>, 3>>, <<<<"t","e","s","t","i","n","g">>, 3>> >>,
    << <<<<"t","e","s","t","i","n","g">>, 5>>, <<<<"s","e","l","e","n","i","u","m">>, 4>>, <<<<"p","y","t","e","s","t">>, 4>>, <<<<"m","a","n","u","a","l"," ","t","e","s","t","i","n","g">>, 5>>,
       <<<<"a","u","t","o","m","a","t","i","o","n">>, 4>>, <<<<"p","e","r","f","o","r","m","a","n","c","e"," ","t","e","s","t","i","n","g">>, 3>>, <<<<"a","p","i"," ","t","e","s","t","i","n","g">>, 3>>,
       <<<<"b","u","g"," ","t","r","a","c","k","i","n","g">>, 3>>, <<<<"r","e","s","t"," ","a","p","i">>, 3>>, <<<<"c","i","/","c","d">>, 3>> >> >>

\* DOMAIN_SKILL_MAP.get(domain, [])
DomainSkills(d) == IF \E i \in 1..Len(DOMAIN_NAMES) : DOMAIN_NAMES[i] = d
                   THEN DOMAIN_SKILL_MAP[CHOOSE i \in 1..Len(DOMAIN_NAMES) : DOMAIN_NAMES[i] = d]
                   ELSE <<>>

domain_required_skills(d) ==
    ListOf([i \in 1..Len(DomainSkills(d)) |->
        [skill |-> Title(DomainSkills(d)[i][1]), importance |-> DomainSkills(d)[i][2]]])

-----------------------------------------------------------------------------
(* agents.py: compute_domain_match *)

RECURSIVE SumImportance(_)
SumImportance(req) == IF req = <<>> THEN 0 ELSE req[1].importance + SumImportance(Tail(req))

\* sum([k['importance'] for k in req]) or 1
TotalWeight(req) == IF SumImportance(req) # 0 THEN SumImportance(req) ELSE 1

\* the test of the loop: k['skill'].lower() in txt
SkillInTextCaseSensitive(k, txt) == In(k.skill, txt)
SkillInText(k, txt) == In(Lower(k.skill), txt)

\* the for loop over req: [matched, missing, matched_weight] after entries i..
RECURSIVE MatchLoopNoElse(_, _, _, _)
MatchLoopNoElse(req, txt, i, acc) ==
    IF i > Len(req) THEN acc
    ELSE MatchLoopNoElse(req, txt, i + 1,
            IF SkillInText(req[i], txt)
            THEN [matched |-> Append(acc.matched, req[i]),
                  missing |-> Append(acc.missing, req[i]),
                  matched_weight |-> acc.matched_weight + req[i].importance]
            ELSE [acc EXCEPT !.missing = Append(@, req[i])])

RECURSIVE MatchLoop(_, _, _, _)
MatchLoop(req, txt, i, acc) ==
    IF i > Len(req) THEN acc
    ELSE MatchLoop(req, txt, i + 1,
            IF SkillInText(req[i], txt)
            THEN [acc EXCEPT !.matched = Append(@, req[i]),
                             !.matched_weight = @ + req[i].importance]
            ELSE [acc EXCEPT !.missing = Append(@, req[i])])

\* int(round((matched_weight / total_weight) * 100))
MatchPercent(matched_weight, total_weight) ==
    FRound(FMulInt(FDivInt(matched_weight, total_weight), 100))

compute_domain_match(rtext, d) ==
    LET req == domain_required_skills(d)
        txt == IF Truthy(rtext) THEN Lower(rtext) ELSE EmptyStr
        total_weight == TotalWeight(req)
        loop == MatchLoop(req, txt, 1, [matched |-> <<>>, missing |-> <<>>, matched_weight |-> 0])
    IN  [matched |-> ListOf([i \in 1..Len(loop.matched) |->
                        [skill |-> loop.matched[i].skill,
                         importance |-> loop.matched[i].importance,
                         score |-> Min(10, loop.matched[i].importance * 2)]]),
         missing |-> ListOf([i \in 1..Len(loop.missing) |->
                        [skill |-> loop.missing[i].skill,
                         importance |-> loop.missing[i].importance,
                         score |-> 0]]),
         match_percent |-> MatchPercent(loop.matched_weight, total_weight)]

-----------------------------------------------------------------------------
(* calls of compute_domain_match (through domain_match_for_ui) *)

\* a domain name that is no key of DOMAIN_SKILL_MAP
UNKNOWN_DOMAINS == {"Product Manager", ""}
CatalogDomains == {DOMAIN_NAMES[i] : i \in 1..Len(DOMAIN_NAMES)}
AllDomains == CatalogDomains \cup UNKNOWN_DOMAINS

\* the words words[i], i \in S, in order, separated by single spaces
RECURSIVE JoinWords(_, _, _)
JoinWords(words, S, i) ==
    IF i > Len(words) THEN <<>>
    ELSE IF i \in S
         THEN words[i] \o (IF \E j \in S : j > i THEN <<" ">> ELSE <<>>)
                       \o JoinWords(words, S, i + 1)
         ELSE JoinWords(words, S, i + 1)

SkillNames(d) == ListOf([i \in 1..Len(DomainSkills(d)) |-> DomainSkills(d)[i][1]])
RequiredNames(d) ==
    ListOf([i \in 1..Len(domain_required_skills(d)) |-> domain_required_skills(d)[i].skill])
AllOf(seq) == 1..Len(seq)

ExampleText == <<"I"," ","k","n","o","w"," ","P","y","t","h","o","n"," ","a","n","d"," ","S","Q","L"," ","v","e","r","y"," ","w","e","l","l">>

\* resume texts tried against every domain
SpecialTexts ==
    {None, EmptyStr, ExampleText,
     <<"J","A","V","A","S","C","R","I","P","T",","," ","N","o","d","e",".","J","S"," ","a","n","d"," ","R","e","a","c","t"," ","d","e","v","e","l","o","p","e","r">>,
     <<"R","e","s","p","o","n","s","i","b","l","e"," ","f","o","r"," ","P","o","s","t","g","r","e","S","Q","L"," ","p","e","r","f","o","r","m","a","n","c","e"," ","t","e","s","t","i","n","g",";","\n","m","a","i","n","t","a","i","n","e","d"," ","C","I","/","C","D">>}
    \cup {JoinWords(RequiredNames(d), AllOf(RequiredNames(d)), 1) : d \in CatalogDomains}
    \cup {Upper(JoinWords(SkillNames(d), AllOf(SkillNames(d)), 1)) : d \in CatalogDomains}

\* every domain with the special texts, every catalog domain with every
\* selection of its own skill names
MatchInputs ==
    (AllDomains \X SpecialTexts)
    \cup UNION {{<<d, JoinWords(SkillNames(d), S, 1)>> : S \in SUBSET AllOf(SkillNames(d))}
                : d \in CatalogDomains}

\* the uniform rules for rounding a tie x.5
TieRules == {"half_up", "half_down", "half_even", "half_odd"}
TieRound(rule, f) == CASE rule = "half_up" -> f + 1
                       [] rule = "half_down" -> f
                       [] rule = "half_even" -> IF f % 2 = 0 THEN f ELSE f + 1
                       [] rule = "half_odd" -> IF f % 2 = 1 THEN f ELSE f + 1
\* 100 * mw / tw lies exactly halfway between two integers
IsTie(mw, tw) == (200 * mw) % tw = 0 /\ ((200 * mw) \div tw) % 2 = 1
AgreeingRules(percent, mw, tw) ==
    IF IsTie(mw, tw) THEN {r \in TieRules : percent = TieRound(r, (100 * mw) \div tw)}
    ELSE TieRules

MatchedWeight(res) == SumImportance(res.matched)

otherThanMatch == <<resume_files, batch_result, file_obj, extract_result, text, score,
                    custom_skills, detected, skills, max_per_skill, difficulty, qs,
    selected_areas, improvements, cleaned, question, answer>>

ComputeDomainMatch ==
    /\ pc = "call"
    /\ match_result' = compute_domain_match(resume_text, domain)
    /\ tie_rules' = tie_rules \cap AgreeingRules(match_result'.match_percent,
                                                 MatchedWeight(match_result'),
                                                 TotalWeight(domain_required_skills(domain)))
    /\ pc' = "done"
    /\ UNCHANGED <<domain, resume_text>>
    /\ UNCHANGED otherThanMatch

InitMatch ==
    /\ pc = "call"
    /\ \E in \in MatchInputs : domain = in[1] /\ resume_text = in[2]
    /\ match_result = None
    /\ tie_rules = TieRules
    /\ resume_files = None /\ batch_result = None
    /\ file_obj = None /\ extract_result = None
    /\ text = None /\ score = None
    /\ custom_skills = None /\ detected = None
    /\ skills = None /\ max_per_skill = None /\ difficulty = None /\ qs = None
    /\ selected_areas = None /\ improvements = None /\ cleaned = None
    /\ question = None /\ answer = None

NextMatch == ComputeDomainMatch

SpecMatch == InitMatch /\ [][NextMatch]_vars

\* a session: one call after another (the Analyze button pressed again)
CloudPrefix == 7
SessionInputs ==
    ({"Data Scientist", "Product Manager"} \X {EmptyStr, ExampleText})
    \cup {<<"Cloud Engineer", JoinWords(SkillNames("Cloud Engineer"), S, 1)>>
            : S \in SUBSET (1..CloudPrefix)}

NewMatchCall ==
    /\ pc = "done"
    /\ \E in \in SessionInputs : domain' = in[1] /\ resume_text' = in[2]
    /\ match_result' = None
    /\ pc' = "call"
    /\ UNCHANGED tie_rules
    /\ UNCHANGED otherThanMatch

InitSession ==
    /\ pc = "call"
    /\ \E in \in SessionInputs : domain = in[1] /\ resume_text = in[2]
    /\ match_result = None
    /\ tie_rules = TieRules
    /\ resume_files = None /\ batch_result = None
    /\ file_obj = None /\ extract_result = None
    /\ text = None /\ score = None
    /\ custom_skills = None /\ detected = None
    /\ skills = None /\ max_per_skill = None /\ difficulty = None /\ qs = None
    /\ selected_areas = None /\ improvements = None /\ cleaned = None
    /\ question = None /\ answer = None

NextSession == ComputeDomainMatch \/ NewMatchCall

SpecSession == InitSession /\ [][NextSession]_vars

-----------------------------------------------------------------------------
(* claims about compute_domain_match *)

NameSet(lst) == {lst[i].skill : i \in 1..Len(lst)}

\* C1: matched and missing partition the domain's required skills: no skill name
\* is in both, together they are exactly the required names (each once), and the
\* importances of matched and missing add up to the importance of all requirements.
C1_Partition ==
    pc = "done" =>
        LET req == domain_required_skills(domain)
            res == match_result
        IN  /\ NameSet(res.matched) \cap NameSet(res.missing) = {}
            /\ NameSet(res.matched) \cup NameSet(res.missing) = NameSet(req)
            /\ Len(res.matched) + Len(res.missing) = Len(req)
            /\ SumImportance(res.matched) + SumImportance(res.missing) = SumImportance(req)

C1_Witness ==
    /\ pc = "done"
    /\ domain \in CatalogDomains
    /\ Len(match_result.matched) >= 2
    /\ Len(match_result.missing) >= 2

\* every required skill name of the domain occurs in the text as written, in the
\* spelling domain_required_skills returns or in the catalog's
ContainsEveryRequiredSkill(t, d) ==
    /\ t # None
    /\ \A i \in 1..Len(DomainSkills(d)) :
          In(Title(DomainSkills(d)[i][1]), t) \/ In(DomainSkills(d)[i][1], t)

\* C2 as stated: match_percent is an integer in 0..100, it is 0 for an empty or
\* missing text, and it is 100 when the text contains every required skill name
\* of the domain.
C2_PercentAsStated ==
    pc = "done" =>
        /\ match_result.match_percent \in 0..100
        /\ (~Truthy(resume_text) => match_result.match_percent = 0)
        /\ (ContainsEveryRequiredSkill(resume_text, domain)
               => match_result.match_percent = 100)

\* C2 amended: match_percent is an integer in 0..100, it is 0 for an empty or
\* missing text, and it is 100 when the domain has at least one required skill
\* and the text contains every required skill name of the domain.
C2_Percent ==
    pc = "done" =>
        /\ match_result.match_percent \in 0..100
        /\ (~Truthy(resume_text) => match_result.match_percent = 0)
        /\ (DomainSkills(domain) # <<>> /\ ContainsEveryRequiredSkill(resume_text, domain)
               => match_result.match_percent = 100)

C2_Witness ==
    /\ pc = "done"
    /\ DomainSkills(domain) # <<>>
    /\ ContainsEveryRequiredSkill(resume_text, domain)
    /\ resume_text = JoinWords(RequiredNames(domain), AllOf(RequiredNames(domain)), 1)
    /\ match_result.match_percent = 100

\* C3: match_percent is 100 * matchedWeight / totalWeight rounded to the nearest
\* integer under one tie rule (some uniform rule agrees with every percent
\* returned so far), totalWeight being 1 for a domain without requirements; an
\* unknown domain gives empty matched, empty missing and 0; the example text
\* against "Data Scientist" gives exactly Python and Sql and the percent of their
\* weights 5 + 4 over the domain's total.
C3_RoundedUnderOneTieRule ==
    pc = "done" =>
        LET req == domain_required_skills(domain)
            mw == MatchedWeight(match_result)
            tw == IF req = <<>> THEN 1 ELSE SumImportance(req)
            p == match_result.match_percent
        IN  /\ 2 * (100 * mw - p * tw) <= tw
            /\ 2 * (p * tw - 100 * mw) <= tw
            /\ tie_rules # {}
            /\ (domain \notin CatalogDomains =>
                   match_result = [matched |-> <<>>, missing |-> <<>>, match_percent |-> 0])
            /\ (domain = "Data Scientist" /\ resume_text = ExampleText =>
                   /\ [i \in 1..Len(match_result.matched) |-> match_result.matched[i].skill]
                         = << <<"P","y","t","h","o","n">>, <<"S","q","l">> >>
                   /\ 2 * (100 * 9 - p * tw) <= tw
                   /\ 2 * (p * tw - 100 * 9) <= tw)

-----------------------------------------------------------------------------
(* helpers.py: clean_text *)

NBSP == "\\xa0"

\* str.replace(a, b) for single characters
ReplaceCh(s, a, b) == ListOf([i \in 1..Len(s) |-> IF s[i] = a THEN b ELSE s[i]])

\* the length of the run of newlines of s that starts at i
RECURSIVE NewlineRun(_, _)
NewlineRun(s, i) == IF i <= Len(s) /\ s[i] = "\n" THEN 1 + NewlineRun(s, i + 1) ELSE 0

\* re.sub(r'\n{3,}', '\n\n', s): every maximal run of 3 or more newlines becomes 2
RECURSIVE CollapseNewlines(_, _)
CollapseNewlines(s, i) ==
    IF i > Len(s) THEN <<>>
    ELSE IF NewlineRun(s, i) >= 3
         THEN <<"\n", "\n">> \o CollapseNewlines(s, i + NewlineRun(s, i))
         ELSE <<s[i]>> \o CollapseNewlines(s, i + 1)

\* str.isspace() on the characters of the model
IsSpaceCh(c) == c \in {" ", "\n", "\r", "\t", NBSP}

\* str.strip()
RECURSIVE LStrip(_)
LStrip(s) == IF s # <<>> /\ IsSpaceCh(Head(s)) THEN LStrip(Tail(s)) ELSE s
RECURSIVE RStrip(_)
RStrip(s) == IF s # <<>> /\ IsSpaceCh(s[Len(s)]) THEN RStrip(SubSeq(s, 1, Len(s) - 1)) ELSE s
Strip(s) == RStrip(LStrip(s))

\* clean_text with lines 20 and 21 exchanged: runs are collapsed before the
\* carriage returns become newlines
clean_textCollapseFirst(t) ==
    IF ~Truthy(t) THEN EmptyStr
    ELSE Strip(ReplaceCh(ReplaceCh(CollapseNewlines(t, 1), "\r", "\n"), NBSP, " "))

clean_text(t) ==
    IF ~Truthy(t) THEN EmptyStr
    ELSE Strip(ReplaceCh(CollapseNewlines(ReplaceCh(t, "\r", "\n"), 1), NBSP, " "))

-----------------------------------------------------------------------------
(* helpers.py: extract_text_from_pdf.  The PDF library is the environment: a
   file object says how each of its calls ends.
     has_read : the handle has a read method (an uploaded stream, not a path)
     open     : pdfplumber.open(file_obj) returns ("ok") or raises
     pages    : what extract_text() gives for each page: a str, None, or PAGE_RAISES
     read     : file_obj.read() gives bytes ("data"), nothing ("empty") or raises
     reopen   : pdfplumber.open(io.BytesIO(data)) returns ("ok") or raises      *)

PAGE_RAISES == <<"raise">>

\* the loop over pdf.pages, text being what was accumulated before it
RECURSIVE ReadPages(_, _, _)
ReadPages(pages, i, acc) ==
    IF i > Len(pages) THEN [raised |-> FALSE, text |-> acc]
    ELSE IF pages[i] = PAGE_RAISES THEN [raised |-> TRUE, text |-> acc]
    ELSE ReadPages(pages, i + 1,
                   acc \o (IF Truthy(pages[i]) THEN pages[i] ELSE EmptyStr) \o <<"\n">>)

\* the fallback of the except branch; a function that ends without a return
\* statement returns None
ExtractFallback(f, acc) ==
    IF ~f.has_read THEN None
    ELSE IF f.read = "raises" THEN EmptyStr
    ELSE IF f.read = "empty" THEN None
    ELSE IF f.reopen = "raises" THEN EmptyStr
    ELSE LET second == ReadPages(f.pages, 1, acc)
         IN  IF second.raised THEN EmptyStr ELSE clean_text(second.text)

\* the outcome of the call: every statement is inside a try whose handler
\* catches Exception, so the call returns
extract_text_from_pdf(f) ==
    LET first == IF f.open = "ok" THEN ReadPages(f.pages, 1, EmptyStr)
                 ELSE [raised |-> TRUE, text |-> EmptyStr]
    IN  [raised |-> FALSE,
         value |-> IF ~first.raised THEN clean_text(first.text)
                   ELSE ExtractFallback(f, first.text)]

-----------------------------------------------------------------------------
(* helpers.py: ats_score *)

KEYWORDS == << <<"p","y","t","h","o","n">>, <<"j","a","v","a">>, <<"m","a","c","h","i","n","e"," ","l","e","a","r","n","i","n","g">>, <<"a","i">>, <<"s","q","l">>,
               <<"d","a","t","a"," ","s","c","i","e","n","c","e">>, <<"f","l","a","s","k">>, <<"r","e","a","c","t">>, <<"n","o","d","e",".","j","s">>, <<"c","l","o","u","d">>,
               <<"a","w","s">>, <<"d","o","c","k","e","r">>, <<"c","o","m","m","u","n","i","c","a","t","i","o","n">>, <<"l","e","a","d","e","r","s","h","i","p">>,
               <<"t","e","n","s","o","r","f","l","o","w">>, <<"p","y","t","o","r","c","h">>, <<"s","q","l">>, <<"d","j","a","n","g","o">>, <<"k","u","b","e","r","n","e","t","e","s">>,
               <<"t","e","r","r","a","f","o","r","m">> >>

POINTS_PER_KEYWORD == 7
MAX_SCORE == 100

RECURSIVE AtsLoop(_, _, _, _)
AtsLoop(keywords, tl, i, acc) ==
    IF i > Len(keywords) THEN acc
    ELSE AtsLoop(keywords, tl, i + 1,
                 IF In(Lower(keywords[i]), tl) THEN acc + POINTS_PER_KEYWORD ELSE acc)

ats_score(t) ==
    IF ~Truthy(t) THEN 0
    ELSE Min(MAX_SCORE, AtsLoop(KEYWORDS, Lower(t), 1, 0))

-----------------------------------------------------------------------------
(* agents.py: batch_resume_analysis.  An entry is a dict with "filename" and
   "file"; helper_raises says that the call of the helper raises (the helper is
   the environment of this function, which guards the call with try/except). *)

\* try: text = extract_text_from_pdf(fileobj) / except Exception: text = ""
EntryTextNoExcept(entry) ==
    IF entry.helper_raises THEN [raised |-> TRUE, text |-> EmptyStr]
    ELSE [raised |-> FALSE, text |-> extract_text_from_pdf(entry.file).value]
EntryText(entry) ==
    IF entry.helper_raises \/ extract_text_from_pdf(entry.file).raised
    THEN [raised |-> FALSE, text |-> EmptyStr]
    ELSE [raised |-> FALSE, text |-> extract_text_from_pdf(entry.file).value]

\* int((ats * 0.6) + (match * 0.4))
CombinedScore(ats, match) ==
    FTrunc(FAdd(FMulInt(FDivInt(6, 10), ats), FMulInt(FDivInt(4, 10), match)))

\* the body of the loop: the record appended for one entry
AnalysisRecord(entry, d) ==
    LET t == EntryText(entry).text
        ats == ats_score(t)
        match == compute_domain_match(t, d).match_percent
    IN  [filename |-> entry.filename, ats_score |-> ats, match_percent |-> match,
         combined_score |-> CombinedScore(ats, match)]

\* sorted(out, key=combined_score, reverse=True): stable, so records with equal
\* keys keep their order
RECURSIVE InsertBeforeEqual(_, _)
InsertBeforeEqual(sorted, x) ==
    IF sorted = <<>> THEN <<x>>
    ELSE IF Head(sorted).combined_score > x.combined_score
         THEN <<Head(sorted)>> \o InsertBeforeEqual(Tail(sorted), x)
         ELSE <<x>> \o sorted
RECURSIVE InsertDescending(_, _)
InsertDescending(sorted, x) ==
    IF sorted = <<>> THEN <<x>>
    ELSE IF Head(sorted).combined_score >= x.combined_score
         THEN <<Head(sorted)>> \o InsertDescending(Tail(sorted), x)
         ELSE <<x>> \o sorted

RECURSIVE SortedDescending(_, _, _)
SortedDescending(lst, i, acc) ==
    IF i > Len(lst) THEN acc
    ELSE SortedDescending(lst, i + 1, InsertDescending(acc, lst[i]))

batch_resume_analysis(files, d) ==
    IF \E i \in 1..Len(files) : EntryText(files[i]).raised
    THEN [raised |-> TRUE, out |-> <<>>]
    ELSE [raised |-> FALSE,
          out |-> SortedDescending(
                      ListOf([i \in 1..Len(files) |-> AnalysisRecord(files[i], d)]), 1, <<>>)]

-----------------------------------------------------------------------------
(* calls of extract_text_from_pdf *)

MaxPages == 2

RECURSIVE SeqsUpTo(_, _)
\* the sequences over S of length at most n
SeqsUpTo(S, n) ==
    IF n = 0 THEN {<<>>}
    ELSE LET shorter == SeqsUpTo(S, n - 1)
         IN  shorter \cup {Append(q, x) : q \in shorter, x \in S}

PageValues == {<<"P","y","t","h","o","n"," ","d","e","v","e","l","o","p","e","r","\r","\n","S","Q","L">>, <<NBSP,"\n","\n","\n","\n","A","W","S"," ",NBSP>>, None, PAGE_RAISES}

FileObjects ==
    [has_read : BOOLEAN, open : {"ok", "raises"}, read : {"data", "empty", "raises"},
     reopen : {"ok", "raises"}, pages : SeqsUpTo(PageValues, MaxPages)]

otherThanExtract == <<domain, resume_text, match_result, tie_rules, resume_files,
                      batch_result, text, score, custom_skills, detected,
                      skills, max_per_skill, difficulty, qs,
    selected_areas, improvements, cleaned, question, answer>>

ExtractTextFromPdf ==
    /\ pc = "call"
    /\ extract_result' = extract_text_from_pdf(file_obj)
    /\ pc' = "done"
    /\ UNCHANGED file_obj
    /\ UNCHANGED otherThanExtract

InitExtract ==
    /\ pc = "call"
    /\ file_obj \in FileObjects
    /\ extract_result = None
    /\ domain = None /\ resume_text = None /\ match_result = None /\ tie_rules = TieRules
    /\ resume_files = None /\ batch_result = None
    /\ text = None /\ score = None
    /\ custom_skills = None /\ detected = None
    /\ skills = None /\ max_per_skill = None /\ difficulty = None /\ qs = None
    /\ selected_areas = None /\ improvements = None /\ cleaned = None
    /\ question = None /\ answer = None

NextExtract == ExtractTextFromPdf

SpecExtract == InitExtract /\ [][NextExtract]_vars

\* the first attempt runs to its return statement
FirstAttemptCompletes(f) ==
    f.open = "ok" /\ \A i \in 1..Len(f.pages) : f.pages[i] # PAGE_RAISES
\* the fallback runs to its return statement
FallbackCompletes(f) ==
    /\ f.has_read /\ f.read = "data" /\ f.reopen = "ok"
    /\ \A i \in 1..Len(f.pages) : f.pages[i] # PAGE_RAISES

RECURSIVE PagesText(_)
PagesText(pages) ==
    IF pages = <<>> THEN <<>>
    ELSE (IF Truthy(Head(pages)) THEN Head(pages) ELSE EmptyStr) \o <<"\n">>
         \o PagesText(Tail(pages))

\* C7: extract_text_from_pdf never raises and always returns a string: the
\* normalized text when the extraction completes, the empty string on every
\* failure, a handle without read method or a read() without data included.
C7_AlwaysReturnsString ==
    pc = "done" =>
        /\ ~extract_result.raised
        /\ extract_result.value # None
        /\ (FirstAttemptCompletes(file_obj)
               => extract_result.value = clean_text(PagesText(file_obj.pages)))
        /\ (~FirstAttemptCompletes(file_obj) /\ ~FallbackCompletes(file_obj)
               => extract_result.value = EmptyStr)

-----------------------------------------------------------------------------
(* calls of ats_score *)

MaxAtsWords == 2

RECURSIVE SubsetsUpTo(_, _)
\* the subsets of S with at most n elements
SubsetsUpTo(S, n) ==
    IF n = 0 THEN {{}}
    ELSE LET smaller == SubsetsUpTo(S, n - 1)
         IN  smaller \cup {A \cup {x} : A \in smaller, x \in S}

AtsTexts ==
    {JoinWords(KEYWORDS, S, 1) : S \in SubsetsUpTo(AllOf(KEYWORDS), MaxAtsWords)}
    \cup {None, EmptyStr, JoinWords(KEYWORDS, AllOf(KEYWORDS), 1),
          Upper(JoinWords(KEYWORDS, AllOf(KEYWORDS), 1)),
          <<"M","a","i","n","t","a","i","n","e","d"," ","J","a","v","a","S","c","r","i","p","t"," ","s","e","r","v","i","c","e","s">>, <<"P","o","s","t","g","r","e","S","Q","L">>}

otherThanAts == <<domain, resume_text, match_result, tie_rules, resume_files,
                  batch_result, file_obj, extract_result, custom_skills, detected,
                  skills, max_per_skill, difficulty, qs,
    selected_areas, improvements, cleaned, question, answer>>

AtsScore ==
    /\ pc = "call"
    /\ score' = ats_score(text)
    /\ pc' = "done"
    /\ UNCHANGED text
    /\ UNCHANGED otherThanAts

InitAts ==
    /\ pc = "call"
    /\ text \in AtsTexts
    /\ score = None
    /\ domain = None /\ resume_text = None /\ match_result = None /\ tie_rules = TieRules
    /\ resume_files = None /\ batch_result = None
    /\ file_obj = None /\ extract_result = None
    /\ custom_skills = None /\ detected = None
    /\ skills = None /\ max_per_skill = None /\ difficulty = None /\ qs = None
    /\ selected_areas = None /\ improvements = None /\ cleaned = None
    /\ question = None /\ answer = None

NextAts == AtsScore

SpecAts == InitAts /\ [][NextAts]_vars

KeywordTerms == {KEYWORDS[i] : i \in 1..Len(KEYWORDS)}
\* the distinct keyword terms that occur in t, case-insensitively
TermsPresent(t) == {k \in KeywordTerms : In(Lower(k), Lower(t))}

\* C8: ats_score(text) is min(100, 7 * h), h the number of distinct keyword terms
\* occurring case-insensitively in text; so it is 0 for an empty or missing text,
\* lies in 0..100, and does not decrease when a keyword term is added to the text.
C8_SevenPerDistinctTerm ==
    pc = "done" =>
        /\ score \in 0..100
        /\ (~Truthy(text) => score = 0)
        /\ (Truthy(text) =>
               /\ score = Min(100, 7 * Cardinality(TermsPresent(text)))
               /\ \A k \in KeywordTerms : ats_score(text \o <<" ">> \o k) >= score)

-----------------------------------------------------------------------------
(* calls of batch_resume_analysis *)

MaxFiles == 3

FILENAMES == <<"resume1.pdf", "resume2.pdf", "resume3.pdf", "resume4.pdf", "resume5.pdf">>

\* an uploaded stream that pdfplumber reads without error
StreamOf(pages) ==
    [has_read |-> TRUE, open |-> "ok", read |-> "data", reopen |-> "ok", pages |-> pages]
\* a path that cannot be opened
MissingPath ==
    [has_read |-> FALSE, open |-> "raises", read |-> "data", reopen |-> "ok", pages |-> <<>>]
\* a stream that cannot be opened and whose read() raises
BrokenStream ==
    [has_read |-> TRUE, open |-> "raises", read |-> "raises", reopen |-> "ok", pages |-> <<>>]

\* what an entry may hold: the file and whether calling the helper raises
BatchUploads ==
    {[file |-> StreamOf(<< <<"P","y","t","h","o","n",","," ","S","Q","L"," ","a","n","d"," ","A","W","S",";","\r","\n","D","o","c","k","e","r">> >>), helper_raises |-> FALSE],
     [file |-> StreamOf(<< <<"a","w","s"," ","a","z","u","r","e"," ","g","c","p"," ","d","o","c","k","e","r"," ","k","u","b","e","r","n","e","t","e","s">> >>), helper_raises |-> FALSE],
     [file |-> StreamOf(<< <<"J","a","v","a"," ","a","n","d"," ","R","e","a","c","t">>, <<"l","e","a","d","e","r","s","h","i","p",","," ","c","o","m","m","u","n","i","c","a","t","i","o","n">> >>),
      helper_raises |-> FALSE],
     [file |-> StreamOf(<< None >>), helper_raises |-> FALSE],
     [file |-> MissingPath, helper_raises |-> FALSE],
     [file |-> BrokenStream, helper_raises |-> FALSE],
     [file |-> MissingPath, helper_raises |-> TRUE]}

BatchDomains == {"Data Scientist", "Cloud Engineer", "Product Manager"}

\* the entries the UI builds: one per upload, named after it
EntriesOf(uploads) ==
    ListOf([i \in 1..Len(uploads) |->
        [filename |-> FILENAMES[i], file |-> uploads[i].file,
         helper_raises |-> uploads[i].helper_raises]])

otherThanBatch == <<resume_text, match_result, tie_rules, file_obj, extract_result,
                    text, score, custom_skills, detected,
                    skills, max_per_skill, difficulty, qs,
    selected_areas, improvements, cleaned, question, answer>>

BatchResumeAnalysis ==
    /\ pc = "call"
    /\ batch_result' = batch_resume_analysis(resume_files, domain)
    /\ pc' = "done"
    /\ UNCHANGED <<resume_files, domain>>
    /\ UNCHANGED otherThanBatch

InitBatch ==
    /\ pc = "call"
    /\ \E uploads \in SeqsUpTo(BatchUploads, MaxFiles) : resume_files = EntriesOf(uploads)
    /\ domain \in BatchDomains
    /\ batch_result = None
    /\ resume_text = None /\ match_result = None /\ tie_rules = TieRules
    /\ file_obj = None /\ extract_result = None
    /\ text = None /\ score = None
    /\ custom_skills = None /\ detected = None
    /\ skills = None /\ max_per_skill = None /\ difficulty = None /\ qs = None
    /\ selected_areas = None /\ improvements = None /\ cleaned = None
    /\ question = None /\ answer = None

NextBatch == BatchResumeAnalysis

SpecBatch == InitBatch /\ [][NextBatch]_vars

\* C4: every record's combined_score is the integer nearest to
\* ats_score * 0.6 + match_percent * 0.4 (a multiple of 1/5, so never a tie), and
\* lies in 0..100.
C4_CombinedIsRounded ==
    pc = "done" =>
        \A i \in 1..Len(batch_result.out) :
            LET r == batch_result.out[i]
            IN  /\ r.combined_score = (6 * r.ats_score + 4 * r.match_percent + 5) \div 10
                /\ r.combined_score \in 0..100

\* the position in the input list of the entry named fn
InputIndex(fn) == CHOOSE k \in 1..Len(resume_files) : resume_files[k].filename = fn

\* C5: the returned list is in descending order of combined_score, and records
\* with equal combined_score are in the order of their entries in the input.
C5_SortedStable ==
    pc = "done" =>
        \A i, j \in 1..Len(batch_result.out) :
            i < j =>
                LET a == batch_result.out[i]
                    b == batch_result.out[j]
                IN  /\ a.combined_score >= b.combined_score
                    /\ (a.combined_score = b.combined_score
                           => InputIndex(a.filename) < InputIndex(b.filename))

C5_Witness ==
    /\ pc = "done"
    /\ Len(batch_result.out) = 3
    /\ batch_result.out[1].combined_score > batch_result.out[2].combined_score
    /\ batch_result.out[2].combined_score = batch_result.out[3].combined_score
    /\ batch_result.out[2].combined_score > 0
    /\ batch_result.out[1].filename = resume_files[3].filename

\* extraction failed for the entry: the helper raised, or returned "" or None
ExtractionFailed(entry) ==
    entry.helper_raises \/ ~Truthy(extract_text_from_pdf(entry.file).value)

\* C6: the batch never aborts on a failed extraction: there is exactly one record
\* per entry, with the entries' filenames, and the record of every entry whose
\* extraction failed has ats_score 0, match_percent 0 and combined_score 0.
C6_FailedEntriesScoreZero ==
    pc = "done" =>
        /\ ~batch_result.raised
        /\ Len(batch_result.out) = Len(resume_files)
        /\ \A k \in 1..Len(resume_files) :
              \E i \in 1..Len(batch_result.out) :
                  /\ batch_result.out[i].filename = resume_files[k].filename
                  /\ (ExtractionFailed(resume_files[k]) =>
                         /\ batch_result.out[i].ats_score = 0
                         /\ batch_result.out[i].match_percent = 0
                         /\ batch_result.out[i].combined_score = 0)

C6_Witness ==
    /\ pc = "done"
    /\ Len(resume_files) = 3
    /\ resume_files[1].helper_raises
    /\ ~resume_files[2].helper_raises
    /\ extract_text_from_pdf(resume_files[2].file).value = None
    /\ ~ExtractionFailed(resume_files[3])
    /\ ~batch_result.raised
    /\ batch_result.out[1].filename = resume_files[3].filename
    /\ batch_result.out[1].combined_score > 0
    /\ batch_result.out[2].combined_score = 0

-----------------------------------------------------------------------------
(* agents.py: detect_skills_simple *)

\* [s for domain in DOMAIN_SKILL_MAP.values() for (s, _) in domain]
RECURSIVE CatalogSkillsFrom(_)
CatalogSkillsFrom(d) ==
    IF d > Len(DOMAIN_SKILL_MAP) THEN <<>>
    ELSE ListOf([i \in 1..Len(DOMAIN_SKILL_MAP[d]) |-> DOMAIN_SKILL_MAP[d][i][1]])
         \o CatalogSkillsFrom(d + 1)

\* (custom_skills or []) + the catalog skills
SkillPool(custom) ==
    (IF custom = NoneList THEN <<>> ELSE custom) \o CatalogSkillsFrom(1)

\* the first loop: the title-cased pool skills that occur in txt
RECURSIVE FoundLoop(_, _, _)
FoundLoop(pool, txt, i) ==
    IF i > Len(pool) THEN <<>>
    ELSE (IF In(Lower(pool[i]), txt) THEN <<Title(pool[i])>> ELSE <<>>)
         \o FoundLoop(pool, txt, i + 1)

\* the second loop: out gets each entry of found that it does not hold yet
RECURSIVE KeepAll(_, _, _)
KeepAll(found, i, out) ==
    IF i > Len(found) THEN out ELSE KeepAll(found, i + 1, Append(out, found[i]))
RECURSIVE Dedupe(_, _, _)
Dedupe(found, i, out) ==
    IF i > Len(found) THEN out
    ELSE Dedupe(found, i + 1, IF InList(found[i], out) THEN out ELSE Append(out, found[i]))

detect_skills_simple(t, custom) ==
    IF ~Truthy(t) THEN <<>>
    ELSE Dedupe(FoundLoop(SkillPool(custom), Lower(t), 1), 1, <<>>)

-----------------------------------------------------------------------------
(* calls of detect_skills_simple (through detect_skills_for_ui) *)

MaxCustom == 2

CustomSkillChoices == {<<"p","y","t","h","o","n">>, <<"P","Y","T","H","O","N">>, <<"R","e","s","t"," ","A","P","I">>, <<"e","x","c","e","l">>, <<"n","o","d","e",".","J","S">>}

DetectTexts ==
    {None, EmptyStr, ExampleText,
     <<"P","Y","T","H","O","N",","," ","E","x","c","e","l"," ","a","n","d"," ","r","e","s","t"," ","a","p","i","s">>,
     <<"N","o","d","e",".","j","s",","," ","J","a","v","a","S","c","r","i","p","t",";"," ","m","a","n","u","a","l"," ","t","e","s","t","i","n","g"," ","o","f"," ","R","E","S","T"," ","A","P","I">>,
     <<"P","e","r","f","o","r","m","a","n","c","e"," ","T","e","s","t","i","n","g"," ","w","i","t","h"," ","p","y","t","e","s","t"," ","a","n","d"," ","S","e","l","e","n","i","u","m",","," ","C","I","/","C","D">>,
     <<"e","x","c","e","l">>,
     <<"n","o"," ","s","k","i","l","l"," ","h","e","r","e">>}

otherThanDetect == <<domain, resume_text, match_result, tie_rules, resume_files,
                     batch_result, file_obj, extract_result, score,
                     skills, max_per_skill, difficulty, qs,
    selected_areas, improvements, cleaned, question, answer>>

DetectSkills ==
    /\ pc = "call"
    /\ detected' = detect_skills_simple(text, custom_skills)
    /\ pc' = "done"
    /\ UNCHANGED <<text, custom_skills>>
    /\ UNCHANGED otherThanDetect

InitDetect ==
    /\ pc = "call"
    /\ text \in DetectTexts
    /\ custom_skills \in SeqsUpTo(CustomSkillChoices, MaxCustom) \cup {NoneList}
    /\ detected = None
    /\ score = None
    /\ domain = None /\ resume_text = None /\ match_result = None /\ tie_rules = TieRules
    /\ resume_files = None /\ batch_result = None
    /\ file_obj = None /\ extract_result = None
    /\ skills = None /\ max_per_skill = None /\ difficulty = None /\ qs = None
    /\ selected_areas = None /\ improvements = None /\ cleaned = None
    /\ question = None /\ answer = None

NextDetect == DetectSkills

SpecDetect == InitDetect /\ [][NextDetect]_vars

\* the title-cased names of the pool skills, and which of them occur in t
RECURSIVE PoolTitles(_)
PoolTitles(pool) ==
    IF pool = <<>> THEN <<>> ELSE <<Title(Head(pool))>> \o PoolTitles(Tail(pool))
RECURSIVE PoolOccurs(_, _)
PoolOccurs(pool, low) ==
    IF pool = <<>> THEN <<>>
    ELSE <<In(Lower(Head(pool)), low)>> \o PoolOccurs(Tail(pool), low)

\* C9: for an empty text the result is empty; the result never holds two entries
\* that are equal case-insensitively; every entry is the title-cased name of a
\* pool skill that occurs case-insensitively in the text, every such pool skill
\* has its entry, and the entries are in the order in which their skills first
\* come in the pool (custom skills, then the catalog in domain order).
C9_DetectedSkills ==
    pc = "done" =>
        LET pool == SkillPool(custom_skills)
            titles == PoolTitles(pool)
            occurs == PoolOccurs(pool, IF Truthy(text) THEN Lower(text) ELSE EmptyStr)
            lowered == ListOf([i \in 1..Len(detected) |-> Lower(detected[i])])
            seen(e, p) == titles[p] = e /\ occurs[p]
            FirstSeen(e) == CHOOSE p \in 1..Len(pool) :
                                seen(e, p) /\ \A q \in 1..(p - 1) : ~seen(e, q)
        IN  /\ (~Truthy(text) => detected = <<>>)
            /\ \A i, j \in 1..Len(detected) : i < j => lowered[i] # lowered[j]
            /\ \A i \in 1..Len(detected) : \E p \in 1..Len(pool) : seen(detected[i], p)
            /\ (Truthy(text) =>
                   \A p \in 1..Len(pool) : occurs[p] => InList(titles[p], detected))
            /\ \A i \in 1..(Len(detected) - 1) :
                  FirstSeen(detected[i]) < FirstSeen(detected[i + 1])

C9_Witness ==
    /\ pc = "done"
    /\ custom_skills = << <<"P","Y","T","H","O","N">>, <<"e","x","c","e","l">> >>
    /\ text = <<"P","Y","T","H","O","N",","," ","E","x","c","e","l"," ","a","n","d"," ","r","e","s","t"," ","a","p","i","s">>
    /\ detected = << <<"P","y","t","h","o","n">>, <<"E","x","c","e","l">>, <<"R","e","s","t"," ","A","p","i">> >>

-----------------------------------------------------------------------------
(* agents.py: generate_interview_questions_offline.  An f-string is the sequence
   of its literal pieces and substituted values. *)

FALLBACK_QUESTIONS ==
    << [q |-> <<"Tell me about yourself.">>,
        a |-> <<"Short summary focusing on relevant experience.">>],
       [q |-> <<"Why this role?">>, a |-> <<"Explain motivation and fit.">>] >>

CLOSING_QUESTION ==
    [q |-> <<"Describe a challenge and how you solved it.">>,
     a |-> <<"Context, action, result.">>]

BasicQuestion(skill) ==
    [q |-> <<"Explain ", skill, " and where you'd use it.">>,
     a |-> <<"High-level description and basic use cases of ", skill, ".">>,
     skill |-> skill]
HardQuestion(skill) ==
    [q |-> <<"Design a scalable solution that heavily uses ", skill, ". Explain trade-offs.">>,
     a |-> <<"Describe architecture, bottlenecks and scaling strategies using ", skill, ".">>,
     skill |-> skill]
MediumQuestion(skill) ==
    [q |-> <<"Describe a project where you used ", skill, ". What challenges did you solve?">>,
     a |-> <<"Talk about the project, your exact role, and results using ", skill, ".">>,
     skill |-> skill]

\* the if / elif / else on difficulty
SkillQuestionDefaultBasic(skill, diff) ==
    IF diff = "Medium" THEN MediumQuestion(skill)
    ELSE IF diff = "Hard" THEN HardQuestion(skill)
    ELSE BasicQuestion(skill)
SkillQuestion(skill, diff) ==
    IF diff = "Basic" THEN BasicQuestion(skill)
    ELSE IF diff = "Hard" THEN HardQuestion(skill)
    ELSE MediumQuestion(skill)

\* for i in range(max_per_skill): qs.append(...)
RECURSIVE RepeatLoop(_, _, _, _)
RepeatLoop(skill, n, diff, i) ==
    IF i >= n THEN <<>>
    ELSE <<SkillQuestion(skill, diff)>> \o RepeatLoop(skill, n, diff, i + 1)

\* for skill in skills: ...
RECURSIVE SkillLoop(_, _, _, _)
SkillLoop(sk, n, diff, s) ==
    IF s > Len(sk) THEN <<>>
    ELSE RepeatLoop(sk[s], n, diff, 0) \o SkillLoop(sk, n, diff, s + 1)

generate_interview_questions_offline(sk, n, diff) ==
    IF sk = NoneList \/ sk = <<>> THEN FALLBACK_QUESTIONS
    ELSE Append(SkillLoop(sk, n, diff, 1), CLOSING_QUESTION)

-----------------------------------------------------------------------------
(* calls of generate_interview_questions_offline *)

MaxSkills == 2
MaxPerSkill == 3

SkillChoices == {<<"P","y","t","h","o","n">>, <<"S","q","l">>, <<"R","e","s","t"," ","A","p","i">>}
\* the three tiers of the UI, and two values that are none of them
Difficulties == {"Basic", "Medium", "Hard", "Expert", "hard"}

otherThanQuestions == <<domain, resume_text, match_result, tie_rules, resume_files,
                        batch_result, file_obj, extract_result, text, score,
                        custom_skills, detected,
    selected_areas, improvements, cleaned, question, answer>>

GenerateInterviewQuestions ==
    /\ pc = "call"
    /\ qs' = generate_interview_questions_offline(skills, max_per_skill, difficulty)
    /\ pc' = "done"
    /\ UNCHANGED <<skills, max_per_skill, difficulty>>
    /\ UNCHANGED otherThanQuestions

InitQuestions ==
    /\ pc = "call"
    /\ skills \in SeqsUpTo(SkillChoices, MaxSkills) \cup {NoneList}
    /\ max_per_skill \in 0..MaxPerSkill
    /\ difficulty \in Difficulties
    /\ qs = None
    /\ selected_areas = None /\ improvements = None /\ cleaned = None
    /\ question = None /\ answer = None
    /\ domain = None /\ resume_text = None /\ match_result = None /\ tie_rules = TieRules
    /\ resume_files = None /\ batch_result = None
    /\ file_obj = None /\ extract_result = None
    /\ text = None /\ score = None
    /\ custom_skills = None /\ detected = None

NextQuestions == GenerateInterviewQuestions

SpecQuestions == InitQuestions /\ [][NextQuestions]_vars

\* the question the claim expects for a skill at the given difficulty
ExpectedQuestion(skill) ==
    CASE difficulty = "Basic" -> BasicQuestion(skill)
      [] difficulty = "Hard" -> HardQuestion(skill)
      [] OTHER -> MediumQuestion(skill)

\* C10: for empty skills the result is the fixed 2-item fallback set, whatever
\* max_per_skill and difficulty; otherwise it is len(skills) * max_per_skill skill
\* questions, skill by skill in input order and repetition by repetition, each
\* from the template of the difficulty (Medium for an unrecognized one), then
\* the one generic closing question; (['Python'], 2, 'Hard') gives 3 items.
C10_Questions ==
    pc = "done" =>
        /\ (skills = NoneList \/ skills = <<>> =>
               /\ qs = FALLBACK_QUESTIONS
               /\ Len(qs) = 2)
        /\ (skills # NoneList /\ skills # <<>> =>
               /\ Len(qs) = Len(skills) * max_per_skill + 1
               /\ qs[Len(qs)] = CLOSING_QUESTION
               /\ \A s \in 1..Len(skills) : \A r \in 0..(max_per_skill - 1) :
                     qs[(s - 1) * max_per_skill + r + 1] = ExpectedQuestion(skills[s]))
        /\ (skills = << <<"P","y","t","h","o","n">> >> /\ max_per_skill = 2 /\ difficulty = "Hard" =>
               qs = <<HardQuestion(<<"P","y","t","h","o","n">>), HardQuestion(<<"P","y","t","h","o","n">>), CLOSING_QUESTION>>)

C10_Witness ==
    /\ pc = "done"
    /\ skills # NoneList
    /\ Len(skills) = 2
    /\ skills[1] # skills[2]
    /\ max_per_skill = 2
    /\ difficulty = "Expert"
    /\ Len(qs) = 5
    /\ qs[3] = MediumQuestion(skills[2])

-----------------------------------------------------------------------------
(* helpers.py: clean_text, called on its own *)

MaxCleanLen == 5

\* the characters clean_text treats differently, and an ordinary one
CleanAlphabet == {"\r", "\n", NBSP, " ", "a"}

CleanTexts == SeqsUpTo(CleanAlphabet, MaxCleanLen) \cup {None}

CleanText ==
    /\ pc = "call"
    /\ cleaned' = clean_text(text)
    /\ pc' = "done"
    /\ UNCHANGED text
    /\ UNCHANGED <<domain, resume_text, match_result, tie_rules, resume_files,
                   batch_result, file_obj, extract_result, score, custom_skills,
                   detected, skills, max_per_skill, difficulty, qs,
                   selected_areas, improvements, question, answer>>

InitClean ==
    /\ pc = "call"
    /\ text \in CleanTexts
    /\ cleaned = None
    /\ score = None /\ custom_skills = None /\ detected = None
    /\ domain = None /\ resume_text = None /\ match_result = None /\ tie_rules = TieRules
    /\ resume_files = None /\ batch_result = None
    /\ file_obj = None /\ extract_result = None
    /\ skills = None /\ max_per_skill = None /\ difficulty = None /\ qs = None
    /\ selected_areas = None /\ improvements = None
    /\ question = None /\ answer = None

NextClean == CleanText

SpecClean == InitClean /\ [][NextClean]_vars

\* C12: clean_text is idempotent: cleaning the cleaned text (of a string over
\* carriage returns, newlines, non-breaking spaces, spaces and ordinary
\* characters, or of an empty or missing input) changes nothing.
C12_Idempotent ==
    pc = "done" => clean_text(cleaned) = cleaned

C12_Witness ==
    /\ pc = "done"
    /\ text # None
    /\ \E i \in 1..Len(text) : text[i] = "\r"
    /\ \E i \in 1..Len(text) : text[i] = NBSP
    /\ \E i \in 1..Len(cleaned) : cleaned[i] = "\n"
    /\ cleaned # text
    /\ clean_text(cleaned) = cleaned

\* the text with every line ending (CRLF, lone CR, LF) written as one LF
RECURSIVE LineEndingsAsLf(_)
LineEndingsAsLf(s) ==
    IF s = <<>> THEN <<>>
    ELSE IF Len(s) >= 2 /\ s[1] = "\r" /\ s[2] = "\n"
         THEN <<"\n">> \o LineEndingsAsLf(SubSeq(s, 3, Len(s)))
         ELSE <<IF s[1] = "\r" THEN "\n" ELSE s[1]>> \o LineEndingsAsLf(Tail(s))

\* C14: clean_text turns every line ending (CRLF, lone CR, LF) into a single
\* newline, so a text with CRLF line endings is cleaned to the same result as
\* the text with LF line endings (one CRLF between two words leaves exactly one
\* newline between them); the result holds no run of 3 or more newlines, no
\* carriage return and no non-breaking space, and no leading or trailing
\* whitespace.
C14_LineEndingsNormalized ==
    pc = "done" /\ text # None =>
        /\ cleaned = clean_text(LineEndingsAsLf(text))
        /\ \A x, y \in CleanAlphabet :
               ~IsSpaceCh(x) /\ ~IsSpaceCh(y) /\ text = <<x, "\r", "\n", y>>
                   => cleaned = <<x, "\n", y>>
        /\ \A i \in 1..Len(cleaned) : NewlineRun(cleaned, i) < 3
        /\ \A i \in 1..Len(cleaned) : cleaned[i] # "\r" /\ cleaned[i] # NBSP
        /\ cleaned = Strip(cleaned)

-----------------------------------------------------------------------------
(* agents.py: generate_improvements.  The returned dict is the sequence of its
   items [area, suggestions] in insertion order; a character outside ASCII is
   written as its escape ("\\u2192"). *)

\* domain=None, the default of the parameter; it names no catalog domain
NO_DOMAIN == "None"

\* truth value of the domain argument: `if domain`
DomainTruthy(d) == d # NO_DOMAIN /\ d # ""

SKILL_HIGHLIGHTING == <<"S","k","i","l","l"," ","H","i","g","h","l","i","g","h","t","i","n","g">>

\* [k['skill'] for k in req if k['skill'].lower() not in text.lower()]
RECURSIVE MissingNames(_, _, _)
MissingNames(req, low, i) ==
    IF i > Len(req) THEN <<>>
    ELSE (IF In(Lower(req[i].skill), low) THEN <<>> ELSE <<req[i].skill>>)
         \o MissingNames(req, low, i + 1)

\* missing[:8]
MISSING_SHOWN == 8

SkillSuggestion(s) ==
    <<"S","h","o","w"," ","a"," ","s","h","o","r","t"," ","b","u","l","l","e","t"," ","l","i","n","k","i","n","g"," ","a"," ","p","r","o","j","e","c","t"," ","t","o"," ">> \o s \o <<" ","a","n","d"," ","a"," ","m","e","a","s","u","r","a","b","l","e"," ","o","u","t","c","o","m","e",".">>

GENERIC_SKILL_SUGGESTION ==
    <<"U","s","e"," ","m","e","t","r","i","c","s"," ","(","%",","," ","n","u","m","b","e","r","s",","," ","t","i","m","e"," ","s","a","v","e","d",")"," ","t","o"," ","q","u","a","n","t","i","f","y"," ","y","o","u","r"," ","s","k","i","l","l"," ","i","m","p","a","c","t",".">>

EXPERIENCE_SUGGESTIONS ==
    << <<"S","t","a","r","t"," ","b","u","l","l","e","t","s"," ","w","i","t","h"," ","a","c","t","i","o","n"," ","v","e","r","b","s"," ","(","D","e","s","i","g","n","e","d",","," ","I","m","p","l","e","m","e","n","t","e","d",","," ","L","e","d",")",".">>,
       <<"P","r","e","f","e","r"," ","2","-","3"," ","b","u","l","l","e","t","s"," ","p","e","r"," ","r","o","l","e"," ","s","h","o","w","i","n","g"," ","p","r","o","b","l","e","m"," ">> \o <<"\\u2192">> \o <<" ","a","c","t","i","o","n"," ">>
           \o <<"\\u2192">> \o <<" ","r","e","s","u","l","t"," ","w","i","t","h"," ","n","u","m","b","e","r","s",".">> >>

PROJECT_SUGGESTIONS ==
    << <<"A","d","d"," ","2">> \o <<"\\u2013">> \o <<"4"," ","p","r","o","j","e","c","t","s",":"," ","t","i","t","l","e",","," ","t","e","c","h"," ","s","t","a","c","k",","," ","r","o","l","e",","," ","c","l","e","a","r"," ","m","e","a","s","u","r","a","b","l","e"," ","r","e","s","u","l","t"," ","(","e",".","g",".",","," ","i","m","p","r","o","v","e","d"," ","X"," ","b","y"," ","Y","%",")",".">>,
       <<"I","n","c","l","u","d","e"," ","l","i","n","k","s"," ","(","G","i","t","H","u","b",")"," ","o","r"," ","s","h","o","r","t"," ","s","c","r","e","e","n","s","h","o","t","s"," ","i","f"," ","a","v","a","i","l","a","b","l","e",".">> >>

STRUCTURE_SUGGESTIONS ==
    << <<"U","s","e"," ","r","e","v","e","r","s","e","-","c","h","r","o","n","o","l","o","g","i","c","a","l"," ","o","r","d","e","r",","," ","c","o","n","s","i","s","t","e","n","t"," ","d","a","t","e"," ","f","o","r","m","a","t"," ","a","n","d"," ","c","l","e","a","r"," ","h","e","a","d","i","n","g","s",".">>,
       <<"K","e","e","p"," ","r","e","s","u","m","e"," ">> \o <<"\\u2264">> \o <<" ","2"," ","p","a","g","e","s"," ","f","o","r"," ","m","i","d","/","s","e","n","i","o","r"," ","r","o","l","e","s",";"," ","1"," ","p","a","g","e"," ","f","o","r"," ","e","n","t","r","y","-","l","e","v","e","l"," ","w","h","e","r","e"," ","p","o","s","s","i","b","l","e",".">> >>

CERTIFICATION_SUGGESTIONS ==
    << <<"A","d","d"," ","r","e","l","e","v","a","n","t"," ","c","e","r","t","i","f","i","c","a","t","i","o","n","s"," ","(","A","W","S","/","G","C","P",","," ","M","L"," ","c","o","u","r","s","e","s",","," ","F","r","o","n","t","e","n","d"," ","c","e","r","t","s",")"," ","i","f"," ","y","o","u"," ","h","a","v","e"," ","t","h","e","m",".">> >>

\* the "Skill Highlighting" suggestions
SkillHighlighting(req, missing) ==
    IF req # <<>>
    THEN ListOf([i \in 1..Min(MISSING_SHOWN, Len(missing)) |-> SkillSuggestion(missing[i])])
    ELSE <<GENERIC_SKILL_SUGGESTION>>

generate_improvements(rtext, areas, d) ==
    LET txt == IF Truthy(rtext) THEN rtext ELSE EmptyStr
        req == IF DomainTruthy(d) THEN domain_required_skills(d) ELSE <<>>
        missing == MissingNames(req, Lower(txt), 1)
        listed == IF areas = NoneList THEN <<>> ELSE areas
        sel == {Strip(listed[i]) : i \in 1..Len(listed)}
        Item(area, suggestions) ==
            IF sel = {} \/ area \in sel
            THEN <<[area |-> area, suggestions |-> suggestions]>>
            ELSE <<>>
    IN  Item(SKILL_HIGHLIGHTING, SkillHighlighting(req, missing))
        \o Item(<<"E","x","p","e","r","i","e","n","c","e"," ","D","e","s","c","r","i","p","t","i","o","n">>, EXPERIENCE_SUGGESTIONS)
        \o Item(<<"P","r","o","j","e","c","t","s">>, PROJECT_SUGGESTIONS)
        \o Item(<<"O","v","e","r","a","l","l"," ","s","t","r","u","c","t","u","r","e">>, STRUCTURE_SUGGESTIONS)
        \o Item(<<"C","e","r","t","i","f","i","c","a","t","i","o","n","s">>, CERTIFICATION_SUGGESTIONS)

-----------------------------------------------------------------------------
(* calls of generate_improvements *)

\* the resume texts name at most MaxPresent, or all, of the skills of the domain
MaxPresent == 3

AreaChoices ==
    {NoneList, <<>>,
     <<SKILL_HIGHLIGHTING>>,
     << <<" ","S","k","i","l","l"," ","H","i","g","h","l","i","g","h","t","i","n","g","\n">>, <<"P","r","o","j","e","c","t","s">> >>,
     <<<<"E","x","p","e","r","i","e","n","c","e"," ","D","e","s","c","r","i","p","t","i","o","n">>, <<"O","v","e","r","a","l","l"," ","s","t","r","u","c","t","u","r","e">>, <<"C","e","r","t","i","f","i","c","a","t","i","o","n","s">>>>,
     << <<"s","k","i","l","l"," ","h","i","g","h","l","i","g","h","t","i","n","g">> >>}

ImproveInputs ==
    ((AllDomains \cup {NO_DOMAIN}) \X SpecialTexts)
    \cup UNION {{<<d, JoinWords(SkillNames(d), S, 1)>> :
                    S \in {T \in SUBSET AllOf(SkillNames(d)) : Cardinality(T) <= MaxPresent}}
                : d \in CatalogDomains}

GenerateImprovements ==
    /\ pc = "call"
    /\ improvements' = generate_improvements(resume_text, selected_areas, domain)
    /\ pc' = "done"
    /\ UNCHANGED <<resume_text, selected_areas, domain>>
    /\ UNCHANGED <<match_result, tie_rules, resume_files, batch_result, file_obj,
                   extract_result, text, score, custom_skills, detected,
                   skills, max_per_skill, difficulty, qs, cleaned, question, answer>>

InitImprove ==
    /\ pc = "call"
    /\ \E in \in ImproveInputs : domain = in[1] /\ resume_text = in[2]
    /\ selected_areas \in AreaChoices
    /\ improvements = None
    /\ match_result = None /\ tie_rules = TieRules
    /\ resume_files = None /\ batch_result = None
    /\ file_obj = None /\ extract_result = None
    /\ text = None /\ score = None /\ custom_skills = None /\ detected = None
    /\ skills = None /\ max_per_skill = None /\ difficulty = None /\ qs = None
    /\ cleaned = None /\ question = None /\ answer = None

NextImprove == GenerateImprovements

SpecImprove == InitImprove /\ [][NextImprove]_vars

\* the suggestions of the "Skill Highlighting" item of a result
HighlightingItems(out) ==
    SelectSeq(out, LAMBDA item : item.area = SKILL_HIGHLIGHTING)

\* C11: whenever the result holds the "Skill Highlighting" area: if a domain was
\* supplied, the area holds one suggestion for each of the first 8 skill names
\* of the missing list compute_domain_match returns for the same text and
\* domain, in that order, each naming its skill; if no domain was supplied, it
\* holds the single generic metrics suggestion.
C11_SkillHighlighting ==
    pc = "done" /\ HighlightingItems(improvements) # <<>> =>
        LET sugg == HighlightingItems(improvements)[1].suggestions
            missing == compute_domain_match(resume_text, domain).missing
            n == Min(8, Len(missing))
        IN  /\ Len(HighlightingItems(improvements)) = 1
            /\ IF DomainTruthy(domain)
               THEN /\ Len(sugg) = n
                    /\ \A i \in 1..n : In(missing[i].skill, sugg[i])
               ELSE sugg = <<GENERIC_SKILL_SUGGESTION>>

-----------------------------------------------------------------------------
(* agents.py: simple_qa_offline *)

PLEASE_UPLOAD == <<"P","l","e","a","s","e"," ","u","p","l","o","a","d"," ","a"," ","r","e","s","u","m","e",".">>
COULD_NOT_FIND == <<"C","o","u","l","d"," ","n","o","t"," ","f","i","n","d"," ","a"," ","d","i","r","e","c","t"," ","a","n","s","w","e","r"," ","i","n"," ","t","h","e"," ","r","e","s","u","m","e",".">>

\* re.split on single-character separators: the pieces of s between them
RECURSIVE SplitAt(_, _, _)
SplitAt(s, seps, cur) ==
    IF s = <<>> THEN <<cur>>
    ELSE IF Head(s) \in seps
         THEN <<cur>> \o SplitAt(Tail(s), seps, <<>>)
         ELSE SplitAt(Tail(s), seps, Append(cur, Head(s)))

\* [s.strip() for s in pieces if s.strip()]
RECURSIVE StrippedNonEmpty(_)
StrippedNonEmpty(pieces) ==
    IF pieces = <<>> THEN <<>>
    ELSE (IF Strip(Head(pieces)) # <<>> THEN <<Strip(Head(pieces))>> ELSE <<>>)
         \o StrippedNonEmpty(Tail(pieces))

\* the characters \w matches
IsWordCh(c) == IsCased(c) \/ c = "_" \/ c \in {"0", "1", "2", "3", "4", "5", "6", "7", "8", "9"}

\* the maximal runs of word characters of s
RECURSIVE WordRuns(_, _)
WordRuns(s, cur) ==
    IF s = <<>> THEN (IF cur # <<>> THEN <<cur>> ELSE <<>>)
    ELSE IF IsWordCh(Head(s))
         THEN WordRuns(Tail(s), Append(cur, Head(s)))
         ELSE (IF cur # <<>> THEN <<cur>> ELSE <<>>) \o WordRuns(Tail(s), <<>>)

MIN_KEYWORD_LEN == 4
MAX_ANSWER_SENTENCES == 6

\* [w.lower() for w in re.findall(r'\w{4,}', q)]
Keywords(q) ==
    LET ws == SelectSeq(WordRuns(q, <<>>), LAMBDA w : Len(w) >= MIN_KEYWORD_LEN)
    IN  ListOf([i \in 1..Len(ws) |-> Lower(ws[i])])

\* the for loop: the sentences that contain a keyword
Matches(sentences, keywords) ==
    SelectSeq(sentences, LAMBDA s : \E i \in 1..Len(keywords) : In(keywords[i], Lower(s)))

\* sep.join(list)
RECURSIVE Join(_, _)
Join(list, sep) ==
    IF list = <<>> THEN <<>>
    ELSE IF Len(list) = 1 THEN list[1]
    ELSE list[1] \o sep \o Join(Tail(list), sep)

\* the return statements, from the matching sentences
QaAnswer(matches) ==
    IF matches # <<>>
    THEN Join(SubSeq(matches, 1, Min(MAX_ANSWER_SENTENCES, Len(matches))), <<"\n", "\n">>)
    ELSE COULD_NOT_FIND

Sentences(rtext) == StrippedNonEmpty(SplitAt(ReplaceCh(rtext, "\n", " "), {".", "\n"}, <<>>))

simple_qa_offline(rtext, q) ==
    IF ~Truthy(rtext) THEN PLEASE_UPLOAD
    ELSE QaAnswer(Matches(Sentences(rtext), Keywords(q)))

-----------------------------------------------------------------------------
(* calls of simple_qa_offline *)

MaxPieces == 4

\* a resume text is up to MaxPieces of these, one after the other
QaPieces == {<<"P","y","t","h","o","n"," ","d","e","v">>, <<"L","e","d"," ","a"," ","J","a","v","a"," ","t","e","a","m">>, <<".">>, <<"\n">>, <<" ">>}

RECURSIVE Concat(_)
Concat(pieces) == IF pieces = <<>> THEN <<>> ELSE Head(pieces) \o Concat(Tail(pieces))

\* the texts made of pieces, no text, and one with more than six sentences that
\* name Python
QaTexts ==
    {Concat(p) : p \in SeqsUpTo(QaPieces, MaxPieces)}
    \cup {None,
           <<"P","y","t","h","o","n",".","\n","B","u","i","l","t"," ","p","y","t","h","o","n"," ","A","P","I","s","."," ","J","a","v","a","\n","P","Y","T","H","O","N"," ","s","c","r","i","p","t","s",".","T","a","u","g","h","t"," ","P","y","t","h","o","n","\n","\n","p","y","t","h","o","n","3"," ","t","o","o","l","s",".","m","o","r","e"," ","P","y","t","h","o","n","."," "," ","P","y","t","h","o","n"," ","l","a","s","t","."," ","P","y","t","h","o","n"," ","a","g","a","i","n",".","E","n","d","s"," ","w","i","t","h"," ","p","y","t","h","o","n">>}

QaQuestions ==
    {EmptyStr, <<"P","y","t","h","o","n","?">>, <<"A","n","y"," ","J","a","v","a"," ","o","r"," ","S","Q","L"," ","d","e","v">>, <<"W","h","o"," ","l","e","d"," ","t","h","e"," ","T","E","A","M",","," ","a","n","d"," ","w","i","t","h"," ","j","a","v","a","_","8","?">>,
     <<"d","e","v">>}

SimpleQaOffline ==
    /\ pc = "call"
    /\ answer' = simple_qa_offline(resume_text, question)
    /\ pc' = "done"
    /\ UNCHANGED <<resume_text, question>>
    /\ UNCHANGED <<domain, match_result, tie_rules, resume_files, batch_result, file_obj,
                   extract_result, text, score, custom_skills, detected, skills,
                   max_per_skill, difficulty, qs, selected_areas, improvements, cleaned>>

InitQa ==
    /\ pc = "call"
    /\ resume_text \in QaTexts
    /\ question \in QaQuestions
    /\ answer = None
    /\ domain = None /\ match_result = None /\ tie_rules = TieRules
    /\ resume_files = None /\ batch_result = None
    /\ file_obj = None /\ extract_result = None
    /\ text = None /\ score = None /\ custom_skills = None /\ detected = None
    /\ skills = None /\ max_per_skill = None /\ difficulty = None /\ qs = None
    /\ selected_areas = None /\ improvements = None /\ cleaned = None

NextQa == SimpleQaOffline

SpecQa == InitQa /\ [][NextQa]_vars

\* the sentences of the claim: the pieces of the text between periods and
\* newlines, without outer whitespace, the empty ones left out
ClaimedSentences(rtext) == StrippedNonEmpty(SplitAt(rtext, {".", "\n"}, <<>>))

\* C13: the answer is the first up to 6 sentences, in text order, that contain
\* (case-insensitively) a word of 4 or more characters of the question, joined
\* by blank lines, where the sentences are the pieces of the resume text between
\* periods and newlines; it is the fixed "could not find" message when no
\* sentence matches and the fixed "please upload" message when the text is absent.
C13_SimpleQa ==
    pc = "done" =>
        IF ~Truthy(resume_text) THEN answer = PLEASE_UPLOAD
        ELSE LET matching == Matches(ClaimedSentences(resume_text), Keywords(question))
             IN  IF matching = <<>> THEN answer = COULD_NOT_FIND
                 ELSE answer = Join(SubSeq(matching, 1, Min(6, Len(matching))), <<"\n", "\n">>)

=============================================================================
